---- MODULE Spec2Model ----
(***************************************************************************)
(* Bet grading in bot.py: the ledger scan (get_pending_bets), the evidence *)
(* fetch (search_game_result), the two grading passes and their consensus  *)
(* (grade_bet), the ledger write (update_bet_result) and the /grade loop   *)
(* (grade_command).                                                        *)
(*                                                                         *)
(* Python strings are sequences of one-character strings, so that lower(), *)
(* substring tests, concatenation and slicing are computed on characters.  *)
(* Python dicts are functions from key names to values; a key that is not  *)
(* in the dict is not in the function's DOMAIN.                            *)
(***************************************************************************)
EXTENDS Integers, Sequences, FiniteSets, TLC

VARIABLES
    sheet,          \* worksheet.get_all_values(): sheet[1] is the header row
    pc,             \* position of grade_command: "idle" or "loop"
    pending_bets,   \* grade_command's pending_bets
    idx,            \* number of bets of pending_bets the loop has taken
    graded,         \* grade_command's graded list
    errors,         \* grade_command's errors list
    not_found,      \* grade_command's not_found list
    trace,          \* history of the current run: one entry per bet taken
    gb_args,        \* arguments and replies of one grade_bet call
    gb_ret,         \* what that grade_bet call did
    ub_args,        \* arguments of repeated update_bet_result calls
    ub_sheets,      \* the sheet after each of those calls
    rule_in,        \* a bet and the scores the grading rules are applied to
    rule_out,       \* the outcomes the rules assign to it
    user_data,      \* context.user_data of each Telegram user
    keyboards,      \* per user, the trader prompts whose buttons are still shown
    prompts,        \* per user, the trader prompts sent since the list was last empty
    restarts,       \* number of times the bot process was restarted
    failed,         \* per user, the last trader selection reported an error
                    \* and the user has stored no item since
    sq_bet,         \* the bet of one search_game_result call
    sq_query        \* the query that call sends to the search provider

vars ==
    <<sheet, pc, pending_bets, idx, graded, errors, not_found, trace,
      gb_args, gb_ret, ub_args, ub_sheets, rule_in, rule_out,
      user_data, keyboards, prompts, restarts, failed, sq_bet, sq_query>>

\* The variables of the photo handlers.
photoVars ==
    <<user_data, keyboards, prompts, restarts, failed>>

\* The variables of the search query.
queryVars ==
    <<sq_bet, sq_query>>

\* The variables of the grading rules.
ruleVars ==
    <<rule_in, rule_out>>

\* The variables of one run of grade_command.
runVars ==
    <<pc, pending_bets, idx, graded, errors, not_found, trace>>

-----------------------------------------------------------------------------
\* String literals of the source.

S_pending ==
    <<"p", "e", "n", "d", "i", "n", "g">>
S_Pending ==
    <<"P", "e", "n", "d", "i", "n", "g">>
S_error ==
    <<"e", "r", "r", "o", "r">>
S_NoResults ==
    <<"N", "o", " ", "r", "e", "s", "u", "l", "t", "s", " ", "f", "o", "u", "n", "d">>
S_SearchError ==
    <<"S", "e", "a", "r", "c", "h", " ", "e", "r", "r", "o", "r", ":", " ">>
S_Summary ==
    <<"S", "u", "m", "m", "a", "r", "y", ":", " ">>
S_Source ==
    <<"S", "o", "u", "r", "c", "e", ":", " ">>
S_NL ==
    <<"\n">>
S_CouldNotFind ==
    <<"C", "o", "u", "l", "d", " ", "n", "o", "t", " ", "f", "i", "n", "d", " ", "g", "a", "m", "e", " ", "r", "e", "s", "u", "l", "t", "s">>
S_ErrorGrading ==
    <<"E", "r", "r", "o", "r", " ", "g", "r", "a", "d", "i", "n", "g", ":", " ">>
S_low ==
    <<"l", "o", "w">>
S_medium ==
    <<"m", "e", "d", "i", "u", "m">>
S_high ==
    <<"h", "i", "g", "h">>
S_unknown ==
    <<"u", "n", "k", "n", "o", "w", "n">>
S_Verified ==
    <<" ", "[", "V", "E", "R", "I", "F", "I", "E", "D", ":", " ">>
S_Close ==
    <<"]">>
S_Corrected ==
    <<"C", "O", "R", "R", "E", "C", "T", "E", "D", ":", " ">>
S_Graded ==
    <<"G", "R", "A", "D", "E", "D", ":", " ">>
S_Bar ==
    <<" ", "|", " ">>
S_Dash ==
    <<" ", "-", " ">>
S_not_found ==
    <<"n", "o", "t", " ", "f", "o", "u", "n", "d">>
S_unknown_league ==
    <<"u", "n", "k", "n", "o", "w", "n", " ", "l", "e", "a", "g", "u", "e">>
S_NA ==
    <<"N", "/", "A">>
S_KeyReasoning ==
    <<"'", "r", "e", "a", "s", "o", "n", "i", "n", "g", "'">>

\* Python's None: a one-element sequence that is no string of characters.
None ==
    <<"None">>

-----------------------------------------------------------------------------
\* Values the environment supplies: outcomes and texts of the model's replies,
\* exception messages, and cell contents of the sheet.

S_Win ==
    <<"W", "i", "n">>
S_Loss ==
    <<"L", "o", "s", "s">>
S_Push ==
    <<"P", "u", "s", "h">>
S_Void ==
    <<"V", "o", "i", "d">>
S_PENDING ==
    <<"P", "E", "N", "D", "I", "N", "G">>
E_timeout ==
    <<"t", "i", "m", "e", "d", " ", "o", "u", "t">>
E_api ==
    <<"o", "v", "e", "r", "l", "o", "a", "d", "e", "d">>
E_sheet ==
    <<"q", "u", "o", "t", "a">>
T_answer ==
    <<"L", "A", "L", " ", "2", " ", "B", "O", "S", " ", "1">>
T_title ==
    <<"T", "e", "r", "r", "o", "r">>
T_content ==
    <<"3", "-", "1">>
T_score1 ==
    <<"2", "-", "1">>
T_score2 ==
    <<"1", "-", "2">>
T_reason1 ==
    <<"2", ">", "1">>
T_math2 ==
    <<"1", "<", "2">>
T_vd1 ==
    <<"F", ":", "2", "-", "1">>
T_vd2 ==
    <<"F", ":", "1", "-", "2">>
T_note0 ==
    <<"n", "0">>
T_reason_nf ==
    <<"G", "a", "m", "e", " ", "n", "o", "t", " ", "f", "o", "u", "n", "d">>

-----------------------------------------------------------------------------
\* Python string and dict operations.

UpperLetters ==
    <<"A", "B", "C", "D", "E", "F", "G", "H", "I", "J", "K", "L", "M",
      "N", "O", "P", "Q", "R", "S", "T", "U", "V", "W", "X", "Y", "Z">>
LowerLetters ==
    <<"a", "b", "c", "d", "e", "f", "g", "h", "i", "j", "k", "l", "m",
      "n", "o", "p", "q", "r", "s", "t", "u", "v", "w", "x", "y", "z">>

\* str.lower() on one character
LowerChar(c) ==
    IF \E i \in 1..Len(UpperLetters) : UpperLetters[i] = c
    THEN LowerLetters[CHOOSE i \in 1..Len(UpperLetters) : UpperLetters[i] = c]
    ELSE c

\* s.lower()
Lower(s) ==
    [i \in 1..Len(s) |-> LowerChar(s[i])]

\* needle in hay
Contains(needle, hay) ==
    \E i \in 0..(Len(hay) - Len(needle)) :
        SubSeq(hay, i + 1, i + Len(needle)) = needle

\* s[:n]
Truncate(s, n) ==
    SubSeq(s, 1, IF Len(s) < n THEN Len(s) ELSE n)

\* d.get(k, default)
Get(d, k, default) ==
    IF k \in DOMAIN d THEN d[k] ELSE default

\* d[k] = v
DictSet(d, k, v) ==
    [x \in (DOMAIN d) \cup {k} |-> IF x = k THEN v ELSE d[x]]

-----------------------------------------------------------------------------
\* The sheet "Bet Log". Columns are numbered from 1 as update_cell numbers them;
\* Python's row[12] is cell 13.

NumCols == 22
COL_MATCH_DATE == 5
COL_LEAGUE == 6
COL_TEAMS == 7
COL_SELECTION == 8
COL_BET_TYPE == 9
COL_ODDS == 10
COL_WAGER == 11
COL_PAYOUT == 12
COL_RESULT == 13
COL_NOTES == 18
COL_VERIFICATION == 22

\* Largest number of data rows of the sheet.
MaxRows == 2

T_date ==
    <<"1", "/", "2">>
T_league ==
    <<"N", "B", "A">>
T_teams ==
    <<"A", " ", "v", " ", "B">>
T_spread ==
    <<"A", " ", "-", "3">>
T_quarter ==
    <<"1", "Q", " ", "o", "9">>
T_header ==
    <<"h">>

\* A data row as append_bet_to_sheet lays it out, with the given selection,
\* result and notes cells.
DataRow(selection, result, notes) ==
    [c \in 1..NumCols |->
        CASE c = COL_MATCH_DATE -> T_date
          [] c = COL_LEAGUE     -> T_league
          [] c = COL_TEAMS      -> T_teams
          [] c = COL_SELECTION  -> selection
          [] c = COL_RESULT     -> result
          [] c = COL_NOTES      -> notes
          [] OTHER              -> <<>>]

HeaderRow ==
    [c \in 1..NumCols |-> T_header]

\* The data rows a sheet starts with: pending in two spellings, with and
\* without earlier notes, and a row that is already settled.
InitialRows ==
    { DataRow(T_spread, S_Pending, <<>>),
      DataRow(T_quarter, S_PENDING, T_note0),
      DataRow(T_spread, S_Win, T_note0) }

\* The bet dict get_pending_bets builds for row number row_num.
BetOfRow(row_num, row) ==
    [row_num          |-> row_num,
     match_date       |-> IF Len(row) > 4 THEN row[COL_MATCH_DATE] ELSE <<>>,
     league           |-> IF Len(row) > 5 THEN row[COL_LEAGUE] ELSE <<>>,
     teams_event      |-> IF Len(row) > 6 THEN row[COL_TEAMS] ELSE <<>>,
     selection        |-> IF Len(row) > 7 THEN row[COL_SELECTION] ELSE <<>>,
     bet_type         |-> IF Len(row) > 8 THEN row[COL_BET_TYPE] ELSE <<>>,
     odds             |-> IF Len(row) > 9 THEN row[COL_ODDS] ELSE <<>>,
     wager            |-> IF Len(row) > 10 THEN row[COL_WAGER] ELSE <<>>,
     potential_payout |-> IF Len(row) > 11 THEN row[COL_PAYOUT] ELSE <<>>]

\* Mutation of IsPendingRow: the comparison keeps the letter case.
IsPendingRow_CaseSensitive(row) ==
    Len(row) > 12 /\ row[COL_RESULT] = S_Pending

\* Mutation of IsPendingRow: the Result test is dropped and every row is taken.
IsPendingRow_EveryRow(row) ==
    Len(row) > 12

\* The test of get_pending_bets on one row: row[12].lower() == "pending".
IsPendingRow(row) ==
    Len(row) > 12 /\ Lower(row[COL_RESULT]) = S_pending

\* The loop of get_pending_bets over all_rows[1:], up to row number n.
RECURSIVE PendingUpTo(_, _)
PendingUpTo(all_rows, n) ==
    IF n < 2
    THEN <<>>
    ELSE LET rest == PendingUpTo(all_rows, n - 1)
         IN  IF IsPendingRow(all_rows[n])
             THEN Append(rest, BetOfRow(n, all_rows[n]))
             ELSE rest

get_pending_bets(all_rows) ==
    PendingUpTo(all_rows, Len(all_rows))

-----------------------------------------------------------------------------
\* The three external calls of grade_bet, each with the reply it receives.

\* What requests.post / raise_for_status / response.json() give.
ProviderResponses ==
    { [kind |-> "raise", msg |-> E_timeout],
      [kind |-> "ok", data |-> [answer |-> <<>>, results |-> <<>>]],
      [kind |-> "ok", data |-> [answer |-> T_answer]],
      [kind |-> "ok", data |-> [results |-> <<[title |-> T_title, content |-> T_content]>>]] }

\* The "Source: ..." paragraphs for the results rs.
RECURSIVE SourcesText(_)
SourcesText(rs) ==
    IF rs = <<>>
    THEN <<>>
    ELSE S_Source \o Get(Head(rs), "title", <<>>) \o S_NL
           \o Get(Head(rs), "content", <<>>) \o S_NL \o S_NL
           \o SourcesText(Tail(rs))

search_game_result(bet, resp) ==
    IF resp.kind = "raise"
    THEN S_SearchError \o resp.msg
    ELSE LET data == resp.data
             answer == Get(data, "answer", <<>>)
             summary == IF answer # <<>> /\ answer # None
                        THEN S_Summary \o answer \o S_NL \o S_NL
                        ELSE <<>>
             result_text == summary \o SourcesText(Truncate(Get(data, "results", <<>>), 3))
         IN  IF result_text # <<>> THEN result_text ELSE S_NoResults

\* The first grading pass: the parsed JSON of the reply, or the Pending grade
\* of the except branch.
grade_bet_with_search(bet, search_results, reply) ==
    IF reply.kind = "raise"
    THEN [result      |-> S_Pending,
          confidence  |-> S_low,
          final_score |-> <<>>,
          reasoning   |-> S_ErrorGrading \o Truncate(reply.msg, 50)]
    ELSE reply.json

\* The verification pass: the parsed JSON of the reply, or the agreeing
\* fallback of the except branch.
verify_grade(bet, initial_grade, search_results, reply) ==
    IF reply.kind = "raise"
    THEN [verified_result     |-> Get(initial_grade, "result", None),
          agrees_with_initial |-> TRUE,
          confidence          |-> S_low]
    ELSE reply.json

\* Mutation of SearchFailed: only the "No results found" test is kept.
SearchFailed_NoErrorTest(search_results) ==
    search_results = S_NoResults

\* grade_bet's early test on the evidence text.
SearchFailed(search_results) ==
    Contains(S_error, Lower(search_results)) \/ search_results = S_NoResults

\* Mutation of IsPendingGrade: a Pending first grade is verified like any other.
IsPendingGrade_Never(initial_grade) ==
    FALSE

\* grade_bet's test that skips verification.
IsPendingGrade(initial_grade) ==
    Lower(Get(initial_grade, "result", <<>>)) = S_pending

\* .get('verification_details') is truthy
Truthy(s) ==
    s # <<>> /\ s # None

\* The branch of grade_bet taken when verification.get('agrees_with_initial').
AgreedGrade(initial_grade, verification) ==
    LET g1 == DictSet(initial_grade, "confidence", S_high)
        g2 == DictSet(g1, "reasoning",
                      g1["reasoning"] \o S_Verified
                        \o Get(verification, "your_math", <<>>) \o S_Close)
    IN  IF Truthy(Get(verification, "verification_details", None))
        THEN DictSet(g2, "verification_details", verification["verification_details"])
        ELSE g2

\* The dict grade_bet builds when the verification does not agree.
CorrectedGrade(initial_grade, verification) ==
    [result      |-> Get(verification, "verified_result", S_Pending),
     final_score |-> Get(verification, "actual_score",
                         Get(initial_grade, "final_score", <<>>)),
     reasoning   |-> S_Corrected \o Get(verification, "your_math", <<>>),
     confidence  |-> Get(verification, "confidence", S_medium),
     verification_details |->
         Get(verification, "verification_details",
             Get(initial_grade, "verification_details", <<>>))]

\* What one call of grade_bet does: kind "return" with the returned dict, or
\* kind "raise" with the exception text; first and second tell whether the
\* grading pass and the verification pass were called, and initial_grade and
\* verification are what they returned.
GradeBetOutcome(kind, value, first, second, initial_grade, verification) ==
    [kind |-> kind, value |-> value, first |-> first, second |-> second,
     initial_grade |-> initial_grade, verification |-> verification]

NotCalled ==
    [not_called |-> TRUE]

grade_bet(bet, resp, reply1, reply2) ==
    LET search_results == search_game_result(bet, resp)
    IN  IF SearchFailed(search_results)
        THEN GradeBetOutcome("return",
                 [result |-> S_Pending, confidence |-> S_low,
                  final_score |-> <<>>, reasoning |-> S_CouldNotFind],
                 FALSE, FALSE, NotCalled, NotCalled)
        ELSE
        LET initial_grade == grade_bet_with_search(bet, search_results, reply1)
        IN  IF IsPendingGrade(initial_grade)
            THEN GradeBetOutcome("return", initial_grade, TRUE, FALSE,
                                 initial_grade, NotCalled)
            ELSE
            LET verification == verify_grade(bet, initial_grade, search_results, reply2)
            IN  IF Get(verification, "agrees_with_initial", FALSE)
                THEN IF "reasoning" \in DOMAIN initial_grade
                     THEN GradeBetOutcome("return",
                              AgreedGrade(initial_grade, verification),
                              TRUE, TRUE, initial_grade, verification)
                     ELSE GradeBetOutcome("raise", [error |-> S_KeyReasoning],
                              TRUE, TRUE, initial_grade, verification)
                ELSE GradeBetOutcome("return",
                         CorrectedGrade(initial_grade, verification),
                         TRUE, TRUE, initial_grade, verification)

-----------------------------------------------------------------------------
\* The replies the two grading passes can receive.

\* Marks a key left out of a reply.
ABSENT ==
    <<"absent">>

\* The dict with the keys of r whose value is not ABSENT.
Strip(r) ==
    [k \in {x \in DOMAIN r : r[x] # ABSENT} |-> r[k]]

\* Replies to the first pass: an exception in the call or in json.loads, or
\* a JSON object with any of the outcome, the reasoning and the verification
\* details left out.
FirstReplies ==
    { [kind |-> "raise", msg |-> E_api] }
    \cup
    { [kind |-> "ok", json |-> Strip(r)] :
        r \in [result               : {S_Win, S_Loss, S_Push, S_Pending, S_pending,
                                       S_Void, ABSENT},
               final_score          : {T_score1},
               reasoning            : {T_reason1, T_reason_nf, ABSENT},
               confidence           : {S_medium},
               verification_details : {T_vd1, ABSENT}] }

\* The string-valued part of a reply to the verification pass.
VerifyFields ==
    [verified_result      : {S_Win, S_Loss, S_Push, S_Pending, ABSENT},
     actual_score         : {T_score2},
     your_math            : {T_math2},
     confidence           : {S_low, ABSENT},
     verification_details : {T_vd2, ABSENT}]

\* Replies to the verification pass: an exception, or a JSON object in which
\* agrees_with_initial is true, false or left out, whatever verified_result is.
VerifyReplies ==
    { [kind |-> "raise", msg |-> E_api] }
    \cup
    { [kind |-> "ok", json |-> Strip(r)] : r \in VerifyFields }
    \cup
    { [kind |-> "ok", json |-> DictSet(Strip(r), "agrees_with_initial", b)] :
        r \in VerifyFields, b \in BOOLEAN }

\* The bets a sheet of InitialRows can hold.
Bets ==
    { BetOfRow(n, row) : n \in 2..(MaxRows + 1), row \in InitialRows }

\* The replies drawn in the runs of grade_command, one for each way the body
\* of its loop can go: the first pass raises, grades with and without
\* verification details, names an outcome outside the four, leaves out the
\* reasoning or the outcome, or answers pending; the verification agrees,
\* corrects to Loss, or corrects to Pending.
RunFirstReplies ==
    { r \in FirstReplies :
        \/ r.kind = "raise"
        \/ r.kind = "ok" /\ r.json \in
             { [result |-> S_Win, final_score |-> T_score1, reasoning |-> T_reason1,
                confidence |-> S_medium, verification_details |-> T_vd1],
               [result |-> S_Void, final_score |-> T_score1, reasoning |-> T_reason1,
                confidence |-> S_medium],
               [result |-> S_Win, final_score |-> T_score1,
                confidence |-> S_medium, verification_details |-> T_vd1],
               [final_score |-> T_score1, reasoning |-> T_reason1,
                confidence |-> S_medium],
               [result |-> S_pending, final_score |-> T_score1,
                reasoning |-> T_reason_nf, confidence |-> S_medium] } }

RunVerifyReplies ==
    { r \in VerifyReplies :
        r.kind = "ok" /\ r.json \in
             { [verified_result |-> S_Win, agrees_with_initial |-> TRUE,
                actual_score |-> T_score2, your_math |-> T_math2,
                confidence |-> S_low, verification_details |-> T_vd2],
               [verified_result |-> S_Loss, agrees_with_initial |-> FALSE,
                actual_score |-> T_score2, your_math |-> T_math2],
               [verified_result |-> S_Pending,
                actual_score |-> T_score2, your_math |-> T_math2] } }

-----------------------------------------------------------------------------
\* grade_bet as a function of its argument and of the three replies.

\* The Telegram users that write to the bot (user_data is kept per user): one
\* user, whose username is not in BETTOR_NAMES.
Users ==
    {"zed"}

\* {}
EmptyDict ==
    [k \in {} |-> <<>>]

\* No user has sent anything since the bot started.
PhotosIdle ==
    /\ user_data = [u \in Users |-> EmptyDict]
    /\ keyboards = [u \in Users |-> 0]
    /\ prompts = [u \in Users |-> 0]
    /\ restarts = 0
    /\ failed = [u \in Users |-> FALSE]

\* No query is being built.
QueryIdle ==
    /\ sq_bet = NotCalled
    /\ sq_query = NotCalled

\* The grading rules are not being applied.
RulesIdle ==
    /\ rule_in = NotCalled
    /\ rule_out = NotCalled

\* No run of grade_command is in progress.
Idle ==
    /\ pc = "idle"
    /\ pending_bets = <<>>
    /\ idx = 0
    /\ graded = <<>>
    /\ errors = <<>>
    /\ not_found = <<>>
    /\ trace = <<>>

InitGradeBet ==
    /\ gb_args \in [bet : {b \in Bets : b.row_num = 2}, resp : ProviderResponses,
                    reply1 : FirstReplies, reply2 : VerifyReplies]
    /\ gb_ret = NotCalled
    /\ sheet = <<HeaderRow>>
    /\ Idle
    /\ ub_args = NotCalled
    /\ ub_sheets = <<>>
    /\ RulesIdle
    /\ PhotosIdle
    /\ QueryIdle

CallGradeBet ==
    /\ gb_ret = NotCalled
    /\ gb_args # NotCalled
    /\ gb_ret' = grade_bet(gb_args.bet, gb_args.resp, gb_args.reply1, gb_args.reply2)
    /\ UNCHANGED <<sheet, runVars, gb_args, ub_args, ub_sheets, ruleVars, photoVars, queryVars>>

SpecGradeBet ==
    InitGradeBet /\ [][CallGradeBet]_vars

\* grade_bet has been called and has returned a dict.
Returned ==
    gb_ret # NotCalled /\ gb_ret.kind = "return"

\* Both passes ran and each named an outcome.
BothOutcomes ==
    /\ gb_ret # NotCalled
    /\ gb_ret.second
    /\ "result" \in DOMAIN gb_ret.initial_grade
    /\ "verified_result" \in DOMAIN gb_ret.verification

-----------------------------------------------------------------------------
\* Claims about grade_bet, checked under SpecGradeBet.

\* a and b are the same text when letter case is ignored.
EqualsIgnoreCase(a, b) ==
    /\ Len(a) = Len(b)
    /\ \A i \in 1..Len(a) : LowerChar(a[i]) = LowerChar(b[i])

\* The outcome o is Pending, in whatever letter case.
PendingOutcome(o) ==
    EqualsIgnoreCase(o, S_Pending)

\* C1: whenever the outcome of the first pass and the outcome of the
\* verification pass differ, the outcome grade_bet returns is the outcome of the
\* verification pass, whatever else the verification reply holds.
C1_SecondPassWinsOnDisagreement ==
    (Returned /\ BothOutcomes
        /\ gb_ret.initial_grade["result"] # gb_ret.verification["verified_result"])
    => Get(gb_ret.value, "result", None) = gb_ret.verification["verified_result"]

\* C2: whenever the first pass returns a non-Pending outcome and the
\* verification pass returns the same outcome, the returned grade has
\* confidence high and the first pass's reasoning annotated with the
\* verification's arithmetic.
C2_AgreementGivesHighConfidence ==
    (Returned /\ BothOutcomes
        /\ "reasoning" \in DOMAIN gb_ret.initial_grade
        /\ gb_ret.initial_grade["result"] = gb_ret.verification["verified_result"])
    => /\ Get(gb_ret.value, "confidence", None) = S_high
       /\ Get(gb_ret.value, "reasoning", None) =
              gb_ret.initial_grade["reasoning"] \o S_Verified
                \o Get(gb_ret.verification, "your_math", <<>>) \o S_Close

\* C9: if the first pass returns outcome Pending (in any letter case),
\* grade_bet returns that very grade and the verification pass is not called.
C9_PendingGradeReturnedUnverified ==
    (gb_ret # NotCalled /\ gb_ret.first
        /\ "result" \in DOMAIN gb_ret.initial_grade
        /\ PendingOutcome(gb_ret.initial_grade["result"]))
    => /\ gb_ret.kind = "return"
       /\ gb_ret.value = gb_ret.initial_grade
       /\ ~gb_ret.second
       /\ gb_ret.verification = NotCalled

C9_Witness ==
    /\ gb_ret # NotCalled
    /\ gb_ret.first
    /\ gb_args.reply1.kind = "ok"
    /\ Get(gb_ret.initial_grade, "result", <<>>) = S_pending
    /\ gb_ret.value = gb_args.reply1.json

\* The provider answered, with no summary and no results.
EmptyResponse(resp) ==
    /\ resp.kind = "ok"
    /\ ~Truthy(Get(resp.data, "answer", <<>>))
    /\ Get(resp.data, "results", <<>>) = <<>>

\* C10: on a provider error, a timeout or an empty response search_game_result
\* returns a text, and grade_bet returns outcome Pending without calling either
\* grading pass and without raising.
C10_FailedLookupGivesPending ==
    (gb_ret # NotCalled /\ (gb_args.resp.kind = "raise" \/ EmptyResponse(gb_args.resp)))
    => /\ Len(search_game_result(gb_args.bet, gb_args.resp)) > 0
       /\ gb_ret.kind = "return"
       /\ Get(gb_ret.value, "result", None) = S_Pending
       /\ ~gb_ret.first
       /\ ~gb_ret.second

C10_WitnessTimeout ==
    /\ gb_ret # NotCalled
    /\ gb_args.resp.kind = "raise"
    /\ gb_args.reply1.kind = "ok"
    /\ Get(gb_args.reply1.json, "result", None) = S_Win
    /\ gb_ret.value["result"] = S_Pending

\* C21: a grade returned with confidence high was corroborated by a
\* verification pass that ran and agreed: the verification call was made, it
\* did not fail (exception, timeout or unparsable reply), and its reply agreed.
C21_HighConfidenceMeansVerified ==
    (Returned /\ Get(gb_ret.value, "confidence", None) = S_high)
    => /\ gb_ret.second
       /\ gb_args.reply2.kind = "ok"
       /\ Get(gb_args.reply2.json, "agrees_with_initial", FALSE)

\* C22: whenever the provider answers successfully with a summary or with
\* results, the first grading pass is called on the evidence, whatever text
\* the evidence contains; the rationale "Could not find game results" is given
\* only after a failed or empty fetch.
C22_EvidenceAlwaysGraded ==
    (gb_ret # NotCalled /\ gb_args.resp.kind = "ok" /\ ~EmptyResponse(gb_args.resp))
    => /\ gb_ret.first
       /\ Get(gb_ret.value, "reasoning", None) # S_CouldNotFind

-----------------------------------------------------------------------------
\* The ledger write.

\* Mutation of UpdateCell: the column is counted from 0, as Python's row[12].
UpdateCell_ZeroBased(ws, row, col, value) ==
    [ws EXCEPT ![row][col - 1] = value]

\* worksheet.update_cell(row, col, value)
UpdateCell(ws, row, col, value) ==
    [ws EXCEPT ![row][col] = value]

\* The Notes cell update_bet_result writes: the grading note appended to the
\* notes already there.
NewNotes(existing_notes, notes) ==
    IF existing_notes # <<>>
    THEN existing_notes \o S_Bar \o S_Graded \o notes
    ELSE S_Graded \o notes

\* update_bet_result on worksheet ws. Its calls to the sheet are, in order:
\* 1 get_google_sheet, 2 update_cell(Result), 3 cell(Notes), 4 update_cell(Notes)
\* and, when verification_details is not empty, 5 update_cell(Verification).
\* fail = 0: no call raises; fail = k: the k-th call raises and writes nothing.
\* Gives the worksheet left behind and whether the function raised.
update_bet_result(ws, row_num, result, notes, verification_details, fail) ==
    LET s1 == IF fail \in {1, 2}
              THEN ws
              ELSE UpdateCell(ws, row_num, COL_RESULT, result)
        existing_notes == s1[row_num][COL_NOTES]
        new_notes == NewNotes(existing_notes, notes)
        s2 == IF fail \in 1..4
              THEN s1
              ELSE UpdateCell(s1, row_num, COL_NOTES, Truncate(new_notes, 500))
        s3 == IF fail \in 1..5 \/ ~Truthy(verification_details)
              THEN s2
              ELSE UpdateCell(s2, row_num, COL_VERIFICATION, verification_details)
    IN  [sheet  |-> s3,
         raised |-> fail \in 1..4 \/ (fail = 5 /\ Truthy(verification_details))]

\* The calls of update_bet_result that can raise, and 0 for none.
FailPoints ==
    0..5

-----------------------------------------------------------------------------
\* grade_command.

S_Colon ==
    <<":", " ">>
\* The bullet of a not_found line; "*" stands for the source's U+2022.
S_Bullet ==
    <<"*", " ">>
S_Open ==
    <<" ", "(">>
S_Paren ==
    <<")">>

\* Every way grade_bet can end for each bet, over the replies of the provider
\* and of the two passes drawn in a run: the dict it returns, or the exception
\* it raises, and whether the lookup let the first pass be called.
GradeBetOutcomes ==
    [bet \in Bets |->
        { [kind  |-> grade_bet(bet, resp, reply1, reply2).kind,
           value |-> grade_bet(bet, resp, reply1, reply2).value,
           first |-> grade_bet(bet, resp, reply1, reply2).first] :
            resp \in ProviderResponses, reply1 \in RunFirstReplies,
            reply2 \in RunVerifyReplies }]

\* result = grade_result.get("result", "Pending")
ResultOf(grade_result) ==
    Get(grade_result, "result", S_Pending)

\* Mutation of IsPendingResult: the comparison keeps the letter case.
IsPendingResult_CaseSensitive(result) ==
    result = S_Pending

\* grade_command's test result.lower() == "pending"
IsPendingResult(result) ==
    Lower(result) = S_pending

\* The test that lists a Pending bet as not found.
IsNotFoundReason(reason) ==
    Contains(S_not_found, Lower(reason)) \/ Contains(S_unknown_league, Lower(reason))

NotFoundEntry(bet) ==
    S_Bullet \o Truncate(bet.teams_event, 30) \o S_Open \o bet.league \o S_Paren

\* notes = f"{final_score} - {reasoning}"
NotesOf(grade_result) ==
    Get(grade_result, "final_score", <<>>) \o S_Dash \o Get(grade_result, "reasoning", <<>>)

GradedEntry(bet, result, grade_result) ==
    [selection  |-> Truncate(bet.selection, 25),
     result     |-> result,
     confidence |-> Get(grade_result, "confidence", S_unknown),
     score      |-> Get(grade_result, "final_score", S_NA)]

ErrorEntry(bet, msg) ==
    Truncate(bet.selection, 20) \o S_Colon \o Truncate(msg, 30)

\* Mutation of OnException: the exception is swallowed without a record.
OnException_NoRecord(errs, bet, msg) ==
    errs

\* The except branch of the loop body.
OnException(errs, bet, msg) ==
    Append(errs, ErrorEntry(bet, msg))

\* One entry of trace: the bet taken, how grade_bet ended ("return" or
\* "raise"), the outcome it returned, the row numbers update_bet_result was
\* called with, whether the loop body ended in its except branch, and whether
\* grade_bet gave up on the lookup before the first pass, and the reasoning of
\* the grade.
TraceEntry(bet, out, update_rows, raised) ==
    [row_num |-> bet.row_num,
     kind    |-> out.kind,
     result  |-> IF out.kind = "return" THEN ResultOf(out.value) ELSE None,
     update_rows |-> update_rows,
     raised  |-> raised,
     lookup_failed |-> ~out.first,
     reasoning |-> IF out.kind = "return"
                   THEN Get(out.value, "reasoning", <<>>)
                   ELSE None]

\* /grade: the pending scan. (A scan that raises is caught by the handler's
\* outer except, which only sends a message: no variable changes.) With no
\* pending bet the handler returns at once.
GradeCommandStart ==
    /\ pc = "idle"
    /\ gb_args = NotCalled
    /\ ub_args = NotCalled
    /\ pending_bets' = get_pending_bets(sheet)
    /\ pc' = IF get_pending_bets(sheet) = <<>> THEN "idle" ELSE "loop"
    /\ idx' = 0
    /\ graded' = <<>>
    /\ errors' = <<>>
    /\ not_found' = <<>>
    /\ trace' = <<>>
    /\ UNCHANGED <<sheet, gb_args, gb_ret, ub_args, ub_sheets, ruleVars, photoVars, queryVars>>

\* One pass through the body of "for bet in pending_bets".
GradeOneBet ==
    /\ pc = "loop"
    /\ idx < Len(pending_bets)
    /\ LET bet == pending_bets[idx + 1]
       IN  \E out \in GradeBetOutcomes[bet], fail \in FailPoints :
             LET grade_result == out.value
                 result == ResultOf(grade_result)
                 upd == update_bet_result(sheet, bet.row_num, result,
                            NotesOf(grade_result),
                            Get(grade_result, "verification_details", <<>>), fail)
             IN  IF out.kind = "raise"
                 THEN /\ errors' = OnException(errors, bet, grade_result["error"])
                      /\ trace' = Append(trace, TraceEntry(bet, out, <<>>, TRUE))
                      /\ UNCHANGED <<sheet, graded, not_found>>
                 ELSE IF IsPendingResult(result)
                 THEN /\ not_found' =
                            IF IsNotFoundReason(Get(grade_result, "reasoning", <<>>))
                            THEN Append(not_found, NotFoundEntry(bet))
                            ELSE not_found
                      /\ trace' = Append(trace, TraceEntry(bet, out, <<>>, FALSE))
                      /\ UNCHANGED <<sheet, graded, errors>>
                 ELSE /\ sheet' = upd.sheet
                      /\ trace' = Append(trace,
                                    TraceEntry(bet, out, <<bet.row_num>>, upd.raised))
                      /\ IF upd.raised
                         THEN /\ errors' = OnException(errors, bet, E_sheet)
                              /\ UNCHANGED graded
                         ELSE /\ graded' = Append(graded,
                                              GradedEntry(bet, result, grade_result))
                              /\ UNCHANGED errors
                      /\ UNCHANGED not_found
    /\ idx' = idx + 1
    /\ UNCHANGED <<pc, pending_bets, gb_args, gb_ret, ub_args, ub_sheets, ruleVars, photoVars, queryVars>>

\* The loop is over: the summary is sent and the handler returns.
GradeCommandSummary ==
    /\ pc = "loop"
    /\ idx = Len(pending_bets)
    /\ pc' = "idle"
    /\ pending_bets' = <<>>
    /\ idx' = 0
    /\ graded' = <<>>
    /\ errors' = <<>>
    /\ not_found' = <<>>
    /\ trace' = <<>>
    /\ UNCHANGED <<sheet, gb_args, gb_ret, ub_args, ub_sheets, ruleVars, photoVars, queryVars>>

\* The sheets a run can start from: a header and 1..MaxRows data rows.
InitialSheets ==
    UNION { { <<HeaderRow>> \o rows : rows \in [1..n -> InitialRows] } : n \in 1..MaxRows }

Init ==
    /\ sheet \in InitialSheets
    /\ Idle
    /\ gb_args = NotCalled
    /\ gb_ret = NotCalled
    /\ ub_args = NotCalled
    /\ ub_sheets = <<>>
    /\ RulesIdle
    /\ PhotosIdle
    /\ QueryIdle

Next ==
    \/ GradeCommandStart
    \/ GradeOneBet
    \/ GradeCommandSummary

Spec ==
    Init /\ [][Next]_vars

-----------------------------------------------------------------------------
\* update_bet_result called repeatedly with the same arguments.

\* Number of calls made with the same arguments.
MaxCalls == 2

InitUpdate ==
    /\ sheet \in InitialSheets
    /\ Idle
    /\ gb_args = NotCalled
    /\ gb_ret = NotCalled
    /\ ub_args \in [row_num : 2..(MaxRows + 1),
                    result : {S_Win, S_Loss},
                    notes : {T_score1 \o S_Dash \o T_reason1},
                    verification_details : {<<>>, T_vd1}]
    /\ ub_args.row_num <= Len(sheet)
    /\ ub_sheets = <<>>
    /\ RulesIdle
    /\ PhotosIdle
    /\ QueryIdle

CallUpdateBetResult ==
    /\ ub_args # NotCalled
    /\ Len(ub_sheets) < MaxCalls
    /\ sheet' = update_bet_result(sheet, ub_args.row_num, ub_args.result,
                                  ub_args.notes, ub_args.verification_details, 0).sheet
    /\ ub_sheets' = Append(ub_sheets, sheet')
    /\ UNCHANGED <<runVars, gb_args, gb_ret, ub_args, ruleVars, photoVars, queryVars>>

SpecUpdate ==
    InitUpdate /\ [][CallUpdateBetResult]_vars

\* C3: after a second call with the same row, outcome, note and verification
\* detail every cell of the sheet is as the first call left it.
C3_UpdateIdempotent ==
    Len(ub_sheets) >= 2 => ub_sheets[2] = ub_sheets[1]

\* The cells update_bet_result writes.
WrittenCols ==
    {COL_RESULT, COL_NOTES, COL_VERIFICATION}

-----------------------------------------------------------------------------
\* Claims about grade_command and the ledger, checked under Spec.

DataRowNums ==
    2..Len(sheet)

\* C4: a grade is never partially written: a step that changes a row of the
\* ledger leaves it with the outcome, the grading note and the verification
\* detail of the grade, that is, update_bet_result ran to its end on that row.
C4_NoPartialGrade ==
    [][\A r \in DataRowNums :
          sheet'[r] # sheet[r]
          => /\ ~trace'[Len(trace')].raised
             /\ sheet'[r][COL_RESULT] # sheet[r][COL_RESULT]
             /\ sheet'[r][COL_NOTES] # sheet[r][COL_NOTES]
             /\ Contains(S_Graded, sheet'[r][COL_NOTES])]_vars

\* C5: in one run, each bet whose grading or update raised added exactly one
\* entry to the error list, the loop took the bets one by one in the order of
\* the pending list whatever raised, and the run ends only after the last bet.
C5_ExceptionsRecordedLoopContinues ==
    /\ [](pc = "loop"
          => /\ Len(trace) = idx
             /\ idx <= Len(pending_bets)
             /\ \A i \in 1..Len(trace) : trace[i].row_num = pending_bets[i].row_num
             /\ Len(errors) = Cardinality({i \in 1..Len(trace) : trace[i].raised}))
    /\ [][(pc = "loop" /\ pc' = "idle") => Len(trace) = Len(pending_bets)]_vars

C5_Witness ==
    /\ pc = "loop"
    /\ Len(pending_bets) = 2
    /\ Len(trace) = 2
    /\ trace[1].kind = "raise"
    /\ Len(errors) = 1
    /\ Len(graded) = 1

\* C6: in one run update_bet_result is called exactly once, with the bet's own
\* row number, for each bet whose final outcome is not Pending, and is not
\* called for a bet whose final outcome is Pending.
C6_OneUpdatePerGradedBet ==
    pc = "loop"
    => \A i \in 1..Len(trace) :
          trace[i].kind = "return"
          => trace[i].update_rows =
                IF PendingOutcome(trace[i].result)
                THEN <<>>
                ELSE <<pending_bets[i].row_num>>

C6_Witness ==
    /\ pc = "loop"
    /\ Len(trace) = 2
    /\ trace[1].kind = "return"
    /\ trace[1].result = S_pending
    /\ trace[1].update_rows = <<>>
    /\ trace[2].result = S_Loss
    /\ trace[2].update_rows = <<3>>
    /\ sheet[3][COL_RESULT] = S_Loss

\* C7: once a row holds a non-Pending outcome no run takes it or changes it:
\* every bet a run has still to take is on a row that is Pending, and no step
\* changes a cell of a row whose outcome is not Pending.
C7_SettledRowsNeverRegraded ==
    /\ [](\A i \in 1..Len(pending_bets) :
            i > idx => PendingOutcome(sheet[pending_bets[i].row_num][COL_RESULT]))
    /\ [][\A r \in DataRowNums :
            ~PendingOutcome(sheet[r][COL_RESULT]) => sheet'[r] = sheet[r]]_vars

\* A second run is under way on a sheet where an earlier run graded row 2.
C7_Witness ==
    /\ pc = "loop"
    /\ idx = 1
    /\ Contains(S_Graded, sheet[2][COL_NOTES])
    /\ ~PendingOutcome(sheet[2][COL_RESULT])
    /\ pending_bets[1].row_num = 3
    /\ Len(sheet) = 3

\* The loop of a run has taken its last bet.
EndOfRun ==
    pc = "loop" /\ idx = Len(pending_bets)

\* C19: at the end of a run every bet whose lookup failed or found no game
\* is Pending and has its line in the not-found list, and the graded, not-found
\* and error lists together hold one entry for each bet the run took.
C19_UnresolvedListedAllCounted ==
    EndOfRun
    => /\ \A i \in 1..Len(trace) :
             (trace[i].lookup_failed \/ trace[i].reasoning = T_reason_nf)
             => /\ PendingOutcome(trace[i].result)
                /\ PendingOutcome(sheet[trace[i].row_num][COL_RESULT])
                /\ \E j \in 1..Len(not_found) :
                      not_found[j] = NotFoundEntry(pending_bets[i])
       /\ Len(graded) + Len(not_found) + Len(errors) = Len(trace)

\* C20: a run writes only Win, Loss or Push to a Result cell, so that every
\* Result cell holds Win, Loss, Push or Pending at all times, whatever the two
\* passes answer.
C20_ResultCellHoldsOutcome ==
    /\ [](\A r \in DataRowNums :
            \/ sheet[r][COL_RESULT] \in {S_Win, S_Loss, S_Push}
            \/ PendingOutcome(sheet[r][COL_RESULT]))
    /\ [][\A r \in DataRowNums :
            sheet'[r][COL_RESULT] # sheet[r][COL_RESULT]
            => sheet'[r][COL_RESULT] \in {S_Win, S_Loss, S_Push}]_vars

\* C8: get_pending_bets returns exactly the data rows whose Result cell is
\* "Pending" when letter case is ignored, each once, in a bet dict that carries
\* the row's position in the sheet as row_num and the row's cells.
C8_PendingScanExact ==
    LET pb == get_pending_bets(sheet)
    IN  /\ \A i \in 1..Len(pb) :
              /\ pb[i].row_num \in DataRowNums
              /\ PendingOutcome(sheet[pb[i].row_num][COL_RESULT])
              /\ pb[i].selection = sheet[pb[i].row_num][COL_SELECTION]
              /\ pb[i].teams_event = sheet[pb[i].row_num][COL_TEAMS]
        /\ \A r \in DataRowNums :
              Cardinality({i \in 1..Len(pb) : pb[i].row_num = r})
                = IF PendingOutcome(sheet[r][COL_RESULT]) THEN 1 ELSE 0

\* The scan took the upper-case PENDING row 3 and left out row 2, which an
\* earlier run had graded.
C8_Witness ==
    /\ pc = "loop"
    /\ idx = 0
    /\ Len(sheet) = 3
    /\ sheet[2][COL_RESULT] = S_Loss
    /\ sheet[3][COL_RESULT] = S_PENDING
    /\ Len(pending_bets) = 1
    /\ pending_bets[1].row_num = 3
    /\ pending_bets[1].selection = T_quarter

-----------------------------------------------------------------------------
\* The grading rules, as the prompts of grade_bet_with_search and verify_grade
\* state them. A rule gives the set of outcomes it assigns: the empty set where
\* it says nothing.

\* Largest score of a team in the inputs.
MaxScore == 3

\* Largest line of the inputs, in half points.
MaxLine == 4

S_Spread ==
    <<"S", "p", "r", "e", "a", "d">>
S_Moneyline ==
    <<"M", "o", "n", "e", "y", "l", "i", "n", "e">>
S_Total ==
    <<"T", "o", "t", "a", "l">>
S_Over ==
    <<"O", "v", "e", "r">>
S_Under ==
    <<"U", "n", "d", "e", "r">>

\* "result": "Win" or "Loss" or "Push" or "Pending"
Outcomes ==
    {S_Win, S_Loss, S_Push, S_Pending}

\* Lines are counted in half points, so that 36.5 is 73: a margin or a total
\* of n points is 2 * n half points.
HalfPoints(points) ==
    2 * points

\* Mutation of PositiveSpreadRules: a margin equal to the spread number is
\* answered as "not less", a Loss.
PositiveSpreadRules_PushIsLoss(line, bet_score, opp_score) ==
    LET loss_margin == HalfPoints(opp_score - bet_score)
    IN  IF bet_score > opp_score \/ (bet_score < opp_score /\ loss_margin < line)
        THEN {S_Win}
        ELSE IF bet_score < opp_score THEN {S_Loss} ELSE {}

\* FOR POSITIVE SPREADS: line is the spread number.
PositiveSpreadRules(line, bet_score, opp_score) ==
    LET loss_margin == HalfPoints(opp_score - bet_score)
    IN  (IF bet_score > opp_score THEN {S_Win} ELSE {})
        \cup (IF bet_score < opp_score /\ loss_margin < line THEN {S_Win} ELSE {})
        \cup (IF bet_score < opp_score /\ loss_margin > line THEN {S_Loss} ELSE {})
        \cup (IF bet_score < opp_score /\ loss_margin = line THEN {S_Push} ELSE {})

\* Mutation of NegativeSpreadRules: a margin equal to the spread number is
\* answered as "not greater", a Loss.
NegativeSpreadRules_PushIsLoss(line, bet_score, opp_score) ==
    LET win_margin == HalfPoints(bet_score - opp_score)
    IN  IF bet_score < opp_score \/ (bet_score > opp_score /\ win_margin <= -line)
        THEN {S_Loss}
        ELSE IF bet_score > opp_score THEN {S_Win} ELSE {}

\* FOR NEGATIVE SPREADS: the spread number is -line.
NegativeSpreadRules(line, bet_score, opp_score) ==
    LET win_margin == HalfPoints(bet_score - opp_score)
    IN  (IF bet_score < opp_score THEN {S_Loss} ELSE {})
        \cup (IF bet_score > opp_score /\ win_margin > -line THEN {S_Win} ELSE {})
        \cup (IF bet_score > opp_score /\ win_margin < -line THEN {S_Loss} ELSE {})
        \cup (IF bet_score > opp_score /\ win_margin = -line THEN {S_Push} ELSE {})

\* SPREAD BETS: the rules are stated for positive and for negative spreads.
SpreadRules(line, bet_score, opp_score) ==
    IF line > 0 THEN PositiveSpreadRules(line, bet_score, opp_score)
    ELSE IF line < 0 THEN NegativeSpreadRules(line, bet_score, opp_score)
    ELSE {}

\* Mutation of OverUnderRules: a total equal to the line is answered as "not
\* over" or "not under", a Loss.
OverUnderRules_PushIsLoss(side, line, score1, score2) ==
    LET total == HalfPoints(score1 + score2)
    IN  IF (side = S_Over /\ total > line) \/ (side = S_Under /\ total < line)
        THEN {S_Win}
        ELSE {S_Loss}

\* OVER/UNDER
OverUnderRules(side, line, score1, score2) ==
    LET total == HalfPoints(score1 + score2)
    IN  (IF side = S_Over /\ total > line THEN {S_Win} ELSE {})
        \cup (IF side = S_Over /\ total < line THEN {S_Loss} ELSE {})
        \cup (IF side = S_Over /\ total = line THEN {S_Push} ELSE {})
        \cup (IF side = S_Under /\ total < line THEN {S_Win} ELSE {})
        \cup (IF side = S_Under /\ total > line THEN {S_Loss} ELSE {})
        \cup (IF side = S_Under /\ total = line THEN {S_Push} ELSE {})

\* MONEYLINE (ML): Just check which team won the game.
MoneylineRules(bet_score, opp_score) ==
    (IF bet_score > opp_score THEN {S_Win} ELSE {})
    \cup (IF opp_score > bet_score THEN {S_Loss} ELSE {})

\* The score of the team the bet is on and of its opponent; a score is the
\* pair of team A's and team B's points.
BetTeamScore(bet, score) ==
    IF bet.team = "A" THEN score[1] ELSE score[2]

OpponentScore(bet, score) ==
    IF bet.team = "A" THEN score[2] ELSE score[1]

\* GRADING RULES of grade_bet_with_search; score is None when the result
\* cannot be determined from the search.
GradingRules(bet, score) ==
    IF score = None
    THEN {S_Pending}
    ELSE IF bet.kind = S_Spread
    THEN SpreadRules(bet.line, BetTeamScore(bet, score), OpponentScore(bet, score))
    ELSE IF bet.kind = S_Total
    THEN OverUnderRules(bet.side, bet.line, score[1], score[2])
    ELSE MoneylineRules(BetTeamScore(bet, score), OpponentScore(bet, score))

\* verify_grade's rule for positive spreads: YES, NO and EQUAL are the three
\* answers to "Is loss margin < spread number?".
VerifyPositiveSpreadRules(line, bet_score, opp_score) ==
    LET loss_margin == HalfPoints(opp_score - bet_score)
    IN  (IF bet_score > opp_score THEN {S_Win} ELSE {})
        \cup (IF bet_score < opp_score /\ loss_margin < line THEN {S_Win} ELSE {})
        \cup (IF bet_score < opp_score /\ loss_margin > line THEN {S_Loss} ELSE {})
        \cup (IF bet_score < opp_score /\ loss_margin = line THEN {S_Push} ELSE {})

\* verify_grade's rule for negative spreads.
VerifyNegativeSpreadRules(line, bet_score, opp_score) ==
    LET win_margin == HalfPoints(bet_score - opp_score)
    IN  (IF bet_score < opp_score THEN {S_Loss} ELSE {})
        \cup (IF bet_score > opp_score /\ win_margin > -line THEN {S_Win} ELSE {})
        \cup (IF bet_score > opp_score /\ win_margin < -line THEN {S_Loss} ELSE {})
        \cup (IF bet_score > opp_score /\ win_margin = -line THEN {S_Push} ELSE {})

\* verify_grade's rule for totals: it names the win and the push; the task is
\* to "re-calculate whether the bet won or lost", so what is left is a Loss.
VerifyOverUnderRules(side, line, score1, score2) ==
    LET total == HalfPoints(score1 + score2)
    IN  IF total = line THEN {S_Push}
        ELSE IF (side = S_Over /\ total > line) \/ (side = S_Under /\ total < line)
        THEN {S_Win}
        ELSE {S_Loss}

\* The rules of verify_grade's prompt: it has rules for spreads and totals
\* only, applied to "the actual score in the search results".
VerificationRules(bet, score) ==
    IF score = None
    THEN {}
    ELSE IF bet.kind = S_Spread
    THEN IF bet.line > 0
         THEN VerifyPositiveSpreadRules(bet.line, BetTeamScore(bet, score),
                                        OpponentScore(bet, score))
         ELSE IF bet.line < 0
         THEN VerifyNegativeSpreadRules(bet.line, BetTeamScore(bet, score),
                                        OpponentScore(bet, score))
         ELSE {}
    ELSE IF bet.kind = S_Total
    THEN VerifyOverUnderRules(bet.side, bet.line, score[1], score[2])
    ELSE {}

\* The bets of the three kinds the rules are stated for.
SpreadBets ==
    [kind : {S_Spread}, team : {"A", "B"}, line : (0 - MaxLine)..MaxLine]

TotalBets ==
    [kind : {S_Total}, side : {S_Over, S_Under}, line : 0..MaxLine]

MoneylineBets ==
    [kind : {S_Moneyline}, team : {"A", "B"}]

\* The scores of a game, and None for a game the search does not settle.
Scores ==
    ((0..MaxScore) \X (0..MaxScore)) \cup {None}

\* The examples the two prompts give, with team A the team the bet is on.
PromptExamples ==
    { [bet |-> [kind |-> S_Spread, team |-> "A", line |-> 73], score |-> <<92, 128>>],
      [bet |-> [kind |-> S_Spread, team |-> "A", line |-> 16], score |-> <<124, 140>>],
      [bet |-> [kind |-> S_Spread, team |-> "A", line |-> 16], score |-> <<100, 108>>],
      [bet |-> [kind |-> S_Spread, team |-> "A", line |-> 10], score |-> <<110, 105>>],
      [bet |-> [kind |-> S_Spread, team |-> "A", line |-> -16], score |-> <<140, 124>>],
      [bet |-> [kind |-> S_Spread, team |-> "A", line |-> -12], score |-> <<110, 108>>],
      [bet |-> [kind |-> S_Spread, team |-> "A", line |-> -20], score |-> <<120, 110>>],
      [bet |-> [kind |-> S_Spread, team |-> "A", line |-> -10], score |-> <<98, 102>>],
      [bet |-> [kind |-> S_Total, side |-> S_Over, line |-> 474], score |-> <<123, 113>>],
      [bet |-> [kind |-> S_Total, side |-> S_Over, line |-> 528], score |-> <<140, 124>>],
      [bet |-> [kind |-> S_Total, side |-> S_Under, line |-> 474], score |-> <<123, 113>>] }

RuleInputs ==
    [bet : SpreadBets \cup TotalBets \cup MoneylineBets, score : Scores]
    \cup PromptExamples

InitRules ==
    /\ rule_in \in RuleInputs
    /\ rule_out = NotCalled
    /\ sheet = <<HeaderRow>>
    /\ Idle
    /\ gb_args = NotCalled
    /\ gb_ret = NotCalled
    /\ ub_args = NotCalled
    /\ ub_sheets = <<>>
    /\ PhotosIdle
    /\ QueryIdle

\* Both passes apply their rules to the bet and the score.
ApplyGradingRules ==
    /\ rule_in # NotCalled
    /\ rule_out = NotCalled
    /\ rule_out' = [grade  |-> GradingRules(rule_in.bet, rule_in.score),
                    verify |-> VerificationRules(rule_in.bet, rule_in.score)]
    /\ UNCHANGED <<sheet, runVars, gb_args, gb_ret, ub_args, ub_sheets, rule_in, photoVars, queryVars>>

SpecRules ==
    InitRules /\ [][ApplyGradingRules]_vars

-----------------------------------------------------------------------------
\* Claims about the grading rules, checked under SpecRules.

\* The rules have been applied to a bet of the given kind and a known score.
Graded(kind) ==
    /\ rule_out # NotCalled
    /\ rule_in.bet.kind = kind
    /\ rule_in.score # None

\* The same spread seen from the other team: the line is negated.
OtherSide(bet) ==
    [kind |-> S_Spread, team |-> IF bet.team = "A" THEN "B" ELSE "A",
     line |-> 0 - bet.line]

\* C12: for every score and every line, the spread bet on one team with line L
\* and the spread bet on the other team with line -L are graded Win and Loss,
\* Loss and Win, or Push and Push.
C12_SpreadAntisymmetric ==
    Graded(S_Spread)
    => <<rule_out.grade, GradingRules(OtherSide(rule_in.bet), rule_in.score)>>
          \in { <<{S_Win}, {S_Loss}>>, <<{S_Loss}, {S_Win}>>, <<{S_Push}, {S_Push}>> }

\* C13: for every Spread, Moneyline and Total bet, every score (a tie included)
\* and every line (zero included) the rules assign exactly one outcome, and it
\* is one of Win, Loss, Push and Pending.
C13_RulesTotalAndDeterministic ==
    rule_out # NotCalled
    => /\ rule_out.grade \subseteq Outcomes
       /\ Cardinality(rule_out.grade) = 1

\* Loss, Push and Win in rising order.
Rank(outcome) ==
    CASE outcome = S_Loss -> 0
      [] outcome = S_Push -> 1
      [] outcome = S_Win  -> 2

\* C14: a Total bet is graded by total - line, the total being the sum of the
\* two scores: Over is Win above the line, Loss below it and Push on it, Under
\* the other way round; both prompts say so, and the outcome of an Over never
\* falls, and that of an Under never rises, as the total grows.
C14_TotalByLine ==
    Graded(S_Total)
    => LET bet == rule_in.bet
           total == HalfPoints(rule_in.score[1] + rule_in.score[2])
           above == IF bet.side = S_Over THEN total - bet.line ELSE bet.line - total
           expected == IF above > 0 THEN S_Win
                       ELSE IF above < 0 THEN S_Loss ELSE S_Push
       IN  /\ rule_out.grade = {expected}
           /\ rule_out.verify = {expected}
           /\ \A s \in Scores \ {None} : \A o \in GradingRules(bet, s) :
                 HalfPoints(s[1] + s[2]) >= total
                 => IF bet.side = S_Over
                    THEN Rank(o) >= Rank(expected)
                    ELSE Rank(o) <= Rank(expected)

\* Over 237 with 123 and 113: the total 236 is below the line, a Loss.
C14_Witness ==
    /\ rule_out # NotCalled
    /\ rule_in.bet = [kind |-> S_Total, side |-> S_Over, line |-> 474]
    /\ rule_in.score = <<123, 113>>
    /\ rule_out.grade = {S_Loss}
    /\ rule_out.verify = {S_Loss}

\* C15: a Spread bet with a positive line is Win when the bet team won the
\* game; when it lost by margin points it is Win for margin < line, Loss for
\* margin > line and Push for margin = line; both prompts say so.
C15_PositiveSpread ==
    (Graded(S_Spread) /\ rule_in.bet.line > 0)
    => LET selectedScore == BetTeamScore(rule_in.bet, rule_in.score)
           opponentScore == OpponentScore(rule_in.bet, rule_in.score)
           margin == HalfPoints(opponentScore - selectedScore)
           expected == IF selectedScore > opponentScore \/ margin < rule_in.bet.line
                       THEN S_Win
                       ELSE IF margin > rule_in.bet.line THEN S_Loss ELSE S_Push
       IN  selectedScore # opponentScore
           => rule_out.grade = {expected} /\ rule_out.verify = {expected}

\* +36.5 losing 92 to 128: the margin 36 is under the line, a Win.
C15_Witness ==
    /\ rule_out # NotCalled
    /\ rule_in.bet = [kind |-> S_Spread, team |-> "A", line |-> 73]
    /\ rule_in.score = <<92, 128>>
    /\ rule_out.grade = {S_Win}
    /\ rule_out.verify = {S_Win}

\* C16: a Spread bet with a negative line is Loss when the bet team lost the
\* game; when it won by margin points it is Win for margin > |line|, Loss for
\* margin < |line| and Push for margin = |line|; both prompts say so.
C16_NegativeSpread ==
    (Graded(S_Spread) /\ rule_in.bet.line < 0)
    => LET selectedScore == BetTeamScore(rule_in.bet, rule_in.score)
           opponentScore == OpponentScore(rule_in.bet, rule_in.score)
           margin == HalfPoints(selectedScore - opponentScore)
           absLine == 0 - rule_in.bet.line
           expected == IF selectedScore < opponentScore \/ margin < absLine
                       THEN S_Loss
                       ELSE IF margin > absLine THEN S_Win ELSE S_Push
       IN  selectedScore # opponentScore
           => rule_out.grade = {expected} /\ rule_out.verify = {expected}

\* -10 winning 120 to 110: the margin 10 is the line, a Push.
C16_Witness ==
    /\ rule_out # NotCalled
    /\ rule_in.bet = [kind |-> S_Spread, team |-> "A", line |-> -20]
    /\ rule_in.score = <<120, 110>>
    /\ rule_out.grade = {S_Push}
    /\ rule_out.verify = {S_Push}

\* C17: a Moneyline bet is Win when the bet team's score is the higher, Loss
\* when it is the lower, and Pending when the two scores are equal.
C17_MoneylineTiePending ==
    Graded(S_Moneyline)
    => LET selectedScore == BetTeamScore(rule_in.bet, rule_in.score)
           opponentScore == OpponentScore(rule_in.bet, rule_in.score)
       IN  rule_out.grade =
              { IF selectedScore > opponentScore THEN S_Win
                ELSE IF selectedScore < opponentScore THEN S_Loss
                ELSE S_Pending }

-----------------------------------------------------------------------------
\* The photo handlers: handle_photo and handle_document store the items of a
\* user in context.user_data and ask for the trader; handle_trader_selection
\* logs the stored items to the sheet. The handlers run one at a time.

\* Largest number of items a user's pending list holds.
MaxPhotos == 2

\* Largest number of rows the handlers append to the sheet.
MaxLogged == 2

\* Largest number of restarts of the bot process.
MaxRestarts == 1

S_NeedsReview ==
    <<"N", "E", "E", "D", "S", " ", "R", "E", "V", "I", "E", "W">>
S_Logged ==
    <<"L", "O", "G", "G", "E", "D">>
S_Danny ==
    <<"D", "a", "n", "n", "y">>
S_Erich ==
    <<"E", "r", "i", "c", "h">>
S_Zak ==
    <<"Z", "a", "k">>
S_Unknown ==
    <<"U", "n", "k", "n", "o", "w", "n">>
S_trader_ ==
    <<"t", "r", "a", "d", "e", "r", "_">>
S_Will ==
    <<"W", "i", "l", "l">>
S_Serge ==
    <<"S", "e", "r", "g", "e">>
S_PYR ==
    <<"P", "Y", "R">>
S_image ==
    <<"i", "m", "a", "g", "e", "/">>

\* Values of the environment: first names, mime types, the clock, a number
\* cell and a formula cell.
T_first ==
    <<"Z", "e", "d">>
T_dan ==
    <<"D", "a", "n">>
T_png ==
    <<"i", "m", "a", "g", "e", "/", "p", "n", "g">>
T_pdf ==
    <<"a", "p", "p", "l", "i", "c", "a", "t", "i", "o", "n", "/", "p", "d", "f">>
T_now ==
    <<"1", "/", "1">>
T_zero ==
    <<"0">>
T_formula ==
    <<"=">>

BETTOR_NAMES ==
    [Dan_rill |-> S_Danny, dan_rill |-> S_Danny, Erich |-> S_Erich, Zak |-> S_Zak]

\* user.first_name
FirstName(username) ==
    IF username = "Dan_rill" THEN T_dan ELSE T_first

\* BETTOR_NAMES.get(username, user.first_name or username)
BettorName(username) ==
    Get(BETTOR_NAMES, username, FirstName(username))

\* The bytes of the items users send.
Photos ==
    {"b1"}

\* The callback data of the three buttons of the trader prompt.
CallbackData ==
    {S_trader_ \o S_Will, S_trader_ \o S_Serge, S_trader_ \o S_PYR}

\* query.data.replace("trader_", ""), for data that begins with "trader_"
\* and holds it once.
TraderOf(data) ==
    IF SubSeq(data, 1, Len(S_trader_)) = S_trader_
    THEN SubSeq(data, Len(S_trader_) + 1, Len(data))
    ELSE data

\* s.startswith(prefix)
StartsWith(s, prefix) ==
    Len(s) >= Len(prefix) /\ SubSeq(s, 1, Len(prefix)) = prefix

\* d.pop(k, None)
DictPop(d, k) ==
    [x \in (DOMAIN d) \ {k} |-> d[x]]

\* Mutation of IsFirstPhoto: every item is taken as the first of its batch.
IsFirstPhoto_Always(pending_photos) ==
    TRUE

\* is_first_photo = len(context.user_data['pending_photos']) == 0
IsFirstPhoto(pending_photos) ==
    Len(pending_photos) = 0

\* The user_data of a user after handle_photo or handle_document has stored
\* an item.
StorePhoto(ud, bettor_name, bytes) ==
    LET ud1 == IF "pending_photos" \notin DOMAIN ud
               THEN DictSet(ud, "pending_photos", <<>>)
               ELSE ud
        ud2 == DictSet(ud1, "pending_photos", Append(ud1["pending_photos"], bytes))
    IN  DictSet(ud2, "bettor_name", bettor_name)

\* What extract_bet_data_from_image gives for one photo and whether
\* append_bet_to_sheet then raises: the extraction raises, it reads one bet,
\* it reads no text, or it reads one bet and the sheet refuses the row.
PhotoReplies ==
    { [kind |-> "raise"],
      [kind |-> "ok", append_raises |-> FALSE,
       bets |-> <<[selection |-> T_spread, teams_event |-> T_teams,
                   league |-> T_league, match_date |-> T_date,
                   confidence |-> S_high, result |-> S_Pending]>>],
      [kind |-> "ok", append_raises |-> FALSE,
       bets |-> <<[confidence |-> S_low, notes |-> T_note0, result |-> S_Pending]>>],
      [kind |-> "ok", append_raises |-> TRUE,
       bets |-> <<[selection |-> T_quarter, confidence |-> S_high,
                   result |-> S_Pending]>>] }

\* The bet_data handle_trader_selection builds from one extracted bet.
BetData(extracted_data, trader, bettor_name, image_link) ==
    [timestamp        |-> T_now,
     date_placed      |-> Get(extracted_data, "date_placed", <<>>),
     trader           |-> trader,
     bettor_name      |-> bettor_name,
     match_date       |-> Get(extracted_data, "match_date", <<>>),
     league           |-> Get(extracted_data, "league", <<>>),
     teams_event      |-> Get(extracted_data, "teams_event", <<>>),
     selection        |-> Get(extracted_data, "selection", <<>>),
     bet_type         |-> Get(extracted_data, "bet_type", <<>>),
     odds             |-> Get(extracted_data, "odds", <<>>),
     wager_amount     |-> Get(extracted_data, "wager_amount", T_zero),
     potential_payout |-> Get(extracted_data, "potential_payout", T_zero),
     result           |-> Get(extracted_data, "result", S_Pending),
     status           |-> IF Get(extracted_data, "confidence", None) = S_low
                          THEN S_NeedsReview
                          ELSE S_Logged,
     raw_text         |-> Truncate(Get(extracted_data, "raw_text", <<>>), 500),
     notes            |-> Get(extracted_data, "notes", <<>>),
     betslip_number   |-> Get(extracted_data, "betslip_number", <<>>),
     image_link       |-> image_link]

\* append_bet_to_sheet: the row it appends to worksheet ws; the cells of Net
\* Result, Commission and Odds Check hold formulas.
append_bet_to_sheet(ws, bet_data) ==
    Append(ws,
        [c \in 1..NumCols |->
            CASE c = 1  -> Get(bet_data, "timestamp", <<>>)
              [] c = 2  -> Get(bet_data, "date_placed", <<>>)
              [] c = 3  -> Get(bet_data, "trader", <<>>)
              [] c = 4  -> Get(bet_data, "bettor_name", <<>>)
              [] c = COL_MATCH_DATE -> Get(bet_data, "match_date", <<>>)
              [] c = COL_LEAGUE     -> Get(bet_data, "league", <<>>)
              [] c = COL_TEAMS      -> Get(bet_data, "teams_event", <<>>)
              [] c = COL_SELECTION  -> Get(bet_data, "selection", <<>>)
              [] c = COL_BET_TYPE   -> Get(bet_data, "bet_type", <<>>)
              [] c = COL_ODDS       -> Get(bet_data, "odds", <<>>)
              [] c = COL_WAGER      -> Get(bet_data, "wager_amount", <<>>)
              [] c = COL_PAYOUT     -> Get(bet_data, "potential_payout", <<>>)
              [] c = COL_RESULT     -> Get(bet_data, "result", <<>>)
              [] c = 14 -> T_formula
              [] c = 15 -> T_formula
              [] c = 16 -> Get(bet_data, "status", <<>>)
              [] c = 17 -> Get(bet_data, "raw_text", <<>>)
              [] c = COL_NOTES      -> Get(bet_data, "notes", <<>>)
              [] c = 19 -> Get(bet_data, "betslip_number", <<>>)
              [] c = 20 -> T_formula
              [] c = 21 -> Get(bet_data, "image_link", <<>>)
              [] OTHER  -> <<>>])

\* The loop of handle_trader_selection over pending_photos from the i-th on,
\* replies[i] being what the i-th photo's extraction and append do: gives the
\* sheet left behind and whether the loop raised. IMGBB_API_KEY is not set,
\* so upload_image_to_imgbb gives "".
RECURSIVE ProcessPhotos(_, _, _, _, _)
ProcessPhotos(ws, replies, i, trader, bettor_name) ==
    IF i > Len(replies)
    THEN [sheet |-> ws, raised |-> FALSE]
    ELSE IF replies[i].kind = "raise" \/ replies[i].append_raises
    THEN [sheet |-> ws, raised |-> TRUE]
    ELSE ProcessPhotos(
             append_bet_to_sheet(ws,
                 BetData(replies[i].bets[1], trader, bettor_name, <<>>)),
             replies, i + 1, trader, bettor_name)

\* A photo arrives.
HandlePhoto ==
    \E u \in Users, photo_bytes \in Photos :
        LET pending_photos == Get(user_data[u], "pending_photos", <<>>)
            is_first_photo == IsFirstPhoto(pending_photos)
        IN  /\ Len(pending_photos) < MaxPhotos
            /\ user_data' = [user_data EXCEPT
                               ![u] = StorePhoto(@, BettorName(u), photo_bytes)]
            /\ keyboards' = IF is_first_photo
                            THEN [keyboards EXCEPT ![u] = @ + 1]
                            ELSE keyboards
            /\ prompts' = IF is_first_photo
                          THEN [prompts EXCEPT ![u] = @ + 1]
                          ELSE prompts
            /\ failed' = [failed EXCEPT ![u] = FALSE]
            /\ UNCHANGED <<sheet, runVars, gb_args, gb_ret, ub_args, ub_sheets,
                           ruleVars, queryVars, restarts>>

\* A file arrives: one that is not an image is answered and dropped.
HandleDocument ==
    \E u \in Users, file_bytes \in Photos, mime_type \in {T_png, T_pdf} :
        LET pending_photos == Get(user_data[u], "pending_photos", <<>>)
            is_first_photo == IsFirstPhoto(pending_photos)
        IN  /\ Len(pending_photos) < MaxPhotos
            /\ IF ~StartsWith(mime_type, S_image)
               THEN UNCHANGED <<user_data, keyboards, prompts, failed>>
               ELSE /\ failed' = [failed EXCEPT ![u] = FALSE]
                    /\ user_data' = [user_data EXCEPT
                                       ![u] = StorePhoto(@, BettorName(u), file_bytes)]
                    /\ keyboards' = IF is_first_photo
                                    THEN [keyboards EXCEPT ![u] = @ + 1]
                                    ELSE keyboards
                    /\ prompts' = IF is_first_photo
                                  THEN [prompts EXCEPT ![u] = @ + 1]
                                  ELSE prompts
            /\ UNCHANGED <<sheet, runVars, gb_args, gb_ret, ub_args, ub_sheets,
                           ruleVars, queryVars, restarts>>

\* The user presses a button of a trader prompt. Every edit_message_text of
\* the handler replaces the prompt, buttons included. The stored photos are
\* cleared only when the whole loop went through.
HandleTraderSelection ==
    \E u \in Users, data \in CallbackData :
        LET trader == TraderOf(data)
            bettor_name == Get(user_data[u], "bettor_name", S_Unknown)
            pending_photos == Get(user_data[u], "pending_photos", <<>>)
        IN  /\ keyboards[u] > 0
            /\ keyboards' = [keyboards EXCEPT ![u] = @ - 1]
            /\ IF pending_photos = <<>>
               THEN UNCHANGED <<sheet, user_data, prompts, failed>>
               ELSE \E replies \in [1..Len(pending_photos) -> PhotoReplies] :
                      LET done == ProcessPhotos(sheet, replies, 1, trader, bettor_name)
                      IN  /\ Len(done.sheet) <= MaxLogged + 1
                          /\ sheet' = done.sheet
                          /\ failed' = [failed EXCEPT ![u] = done.raised]
                          /\ IF done.raised
                             THEN UNCHANGED <<user_data, prompts>>
                             ELSE /\ user_data' =
                                       [user_data EXCEPT
                                          ![u] = DictPop(DictPop(@, "pending_photos"),
                                                         "bettor_name")]
                                  /\ prompts' = [prompts EXCEPT ![u] = 0]
            /\ UNCHANGED <<runVars, gb_args, gb_ret, ub_args, ub_sheets,
                           ruleVars, queryVars, restarts>>

\* The bot process is started again: user_data is kept in memory only, the
\* prompts already sent stay in the chats.
Restart ==
    /\ restarts < MaxRestarts
    /\ restarts' = restarts + 1
    /\ user_data' = [u \in Users |-> EmptyDict]
    /\ prompts' = [u \in Users |-> 0]
    /\ failed' = [u \in Users |-> FALSE]
    /\ UNCHANGED <<sheet, runVars, gb_args, gb_ret, ub_args, ub_sheets,
                   ruleVars, queryVars, keyboards>>

InitPhotos ==
    /\ sheet = <<HeaderRow>>
    /\ Idle
    /\ gb_args = NotCalled
    /\ gb_ret = NotCalled
    /\ ub_args = NotCalled
    /\ ub_sheets = <<>>
    /\ RulesIdle
    /\ PhotosIdle
    /\ QueryIdle

NextPhotos ==
    \/ HandlePhoto
    \/ HandleDocument
    \/ HandleTraderSelection
    \/ Restart

SpecPhotos ==
    InitPhotos /\ [][NextPhotos]_vars

\* The pending list of user u; empty when there is none.
PendingOf(u) ==
    Get(user_data[u], "pending_photos", <<>>)

C23_PromptAfterFailure ==
    [][\A u \in Users :
         (failed[u] /\ Len(PendingOf(u)') > Len(PendingOf(u)))
         => keyboards'[u] = keyboards[u] + 1]_vars

-----------------------------------------------------------------------------
\* The query search_game_result sends to the search provider.

S_1q ==
    <<"1", "q">>
S_2q ==
    <<"2", "q">>
S_3q ==
    <<"3", "q">>
S_4q ==
    <<"4", "q">>
S_1h ==
    <<"1", "h">>
S_2h ==
    <<"2", "h">>
S_first_quarter ==
    <<"f", "i", "r", "s", "t", " ", "q", "u", "a", "r", "t", "e", "r">>
S_first_half ==
    <<"f", "i", "r", "s", "t", " ", "h", "a", "l", "f">>
S_second_half ==
    <<"s", "e", "c", "o", "n", "d", " ", "h", "a", "l", "f">>
S_BoxScore ==
    <<"b", "o", "x", " ", "s", "c", "o", "r", "e", " ", "q", "u", "a", "r", "t", "e", "r", " ", "b", "y", " ", "q", "u", "a", "r", "t", "e", "r">>
S_FinalScore ==
    <<"f", "i", "n", "a", "l", " ", "s", "c", "o", "r", "e", " ", "r", "e", "s", "u", "l", "t">>
S_Space ==
    <<" ">>

\* Texts of the bets the query is built for.
T_1Q ==
    <<"1", "Q">>
T_3q ==
    <<"3", "q">>
T_2H ==
    <<"2", "H">>
T_FirstHalf ==
    <<"F", "i", "r", "s", "t", " ", "H", "a", "l", "f">>
T_first_quarter ==
    <<"f", "i", "r", "s", "t", " ", "q", "u", "a", "r", "t", "e", "r">>
T_SECOND_HALF ==
    <<"S", "E", "C", "O", "N", "D", " ", "H", "A", "L", "F">>
T_second_quarter ==
    <<"s", "e", "c", "o", "n", "d", " ", "q", "u", "a", "r", "t", "e", "r">>
T_Q1 ==
    <<"Q", "1">>
T_over ==
    <<"o", "9">>
T_team ==
    <<"A", " ">>
T_date2 ==
    <<"1", "/", "3">>
T_league2 ==
    <<"N", "F", "L">>
T_teams2 ==
    <<"C", " ", "v", " ", "D">>

\* The texts search_game_result looks for in the lowercased selection.
PartialMarkers ==
    {S_1q, S_2q, S_3q, S_4q, S_1h, S_2h, S_first_quarter, S_first_half, S_second_half}

\* Mutation of is_partial: the selection is searched as written, not lowercased.
is_partial_CaseSensitive(selection) ==
    \E x \in PartialMarkers : Contains(x, selection)

\* any(x in selection.lower() for x in [...])
is_partial(selection) ==
    \E x \in PartialMarkers : Contains(x, Lower(selection))

\* The f-string search_game_result builds for bet.
query(bet) ==
    LET match_date == bet.match_date
        league == bet.league
        teams == bet.teams_event
        selection == bet.selection
    IN  IF is_partial(selection)
        THEN teams \o S_Space \o league \o S_Space \o match_date \o S_Space \o S_BoxScore
        ELSE teams \o S_Space \o league \o S_Space \o match_date \o S_Space \o S_FinalScore

\* Selections: a team or nothing, then a period written in one of several
\* ways, a period the source does not look for, or a spread, then a line or
\* nothing.
Selections ==
    { pre \o mid \o post :
        pre \in {<<>>, T_team},
        mid \in {T_1Q, T_3q, T_2H, S_4q, T_FirstHalf, T_first_quarter, T_SECOND_HALF,
                 T_second_quarter, T_Q1, T_spread, <<>>},
        post \in {<<>>, S_Space \o T_over} }

\* The bets search_game_result is called with.
QueryBets ==
    [row_num : {2}, match_date : {T_date, T_date2}, league : {T_league, T_league2},
     teams_event : {T_teams, T_teams2}, selection : Selections]

InitQuery ==
    /\ sq_bet \in QueryBets
    /\ sq_query = NotCalled
    /\ sheet = <<HeaderRow>>
    /\ Idle
    /\ gb_args = NotCalled
    /\ gb_ret = NotCalled
    /\ ub_args = NotCalled
    /\ ub_sheets = <<>>
    /\ RulesIdle
    /\ PhotosIdle

\* search_game_result builds the query for its bet.
BuildQuery ==
    /\ sq_bet # NotCalled
    /\ sq_query = NotCalled
    /\ sq_query' = query(sq_bet)
    /\ UNCHANGED <<sheet, runVars, gb_args, gb_ret, ub_args, ub_sheets, ruleVars,
                   photoVars, sq_bet>>

SpecQuery ==
    InitQuery /\ [][BuildQuery]_vars

\* s ends with suffix.
EndsWith(s, suffix) ==
    /\ Len(s) >= Len(suffix)
    /\ SubSeq(s, Len(s) - Len(suffix) + 1, Len(s)) = suffix

\* needle occurs in hay when letter case is ignored.
ContainsIgnoreCase(needle, hay) ==
    \E i \in 0..(Len(hay) - Len(needle)) :
        EqualsIgnoreCase(SubSeq(hay, i + 1, i + Len(needle)), needle)

\* The period qualifiers 1Q, 2Q, 3Q, 4Q, 1H, 2H.
PeriodQualifiers ==
    { <<"1", "Q">>, <<"2", "Q">>, <<"3", "Q">>, <<"4", "Q">>, <<"1", "H">>, <<"2", "H">> }

\* The periods written out that the source also looks for.
SpelledPeriods ==
    { S_first_quarter, S_first_half, S_second_half }

\* The event label, the league and the date of the bet, separated by spaces.
QueryHead ==
    sq_bet.teams_event \o S_Space \o sq_bet.league \o S_Space \o sq_bet.match_date

\* C24 as stated: the query is the event label, the league and the date, and
\* it ends with "box score quarter by quarter" exactly when the selection
\* contains one of 1Q, 2Q, 3Q, 4Q, 1H, 2H in any letter case, and with "final
\* score result" otherwise.
C24_QueryBySixQualifiers ==
    sq_query # NotCalled
    => LET qualified == \E x \in PeriodQualifiers :
                           ContainsIgnoreCase(x, sq_bet.selection)
       IN  /\ StartsWith(sq_query, QueryHead \o S_Space)
           /\ qualified <=> EndsWith(sq_query, S_BoxScore)
           /\ ~qualified <=> EndsWith(sq_query, S_FinalScore)

\* C24 amended: the query is the event label, the league and the date
\* followed by "box score quarter by quarter" exactly when the selection
\* contains, in any letter case, one of 1Q, 2Q, 3Q, 4Q, 1H, 2H, "first
\* quarter", "first half" or "second half", and by "final score result"
\* otherwise.
C24_QueryByNineMarkers ==
    sq_query # NotCalled
    => LET qualified == \E x \in PeriodQualifiers \cup SpelledPeriods :
                           ContainsIgnoreCase(x, sq_bet.selection)
       IN  sq_query = QueryHead \o S_Space
                        \o (IF qualified THEN S_BoxScore ELSE S_FinalScore)

\* The query was built for a selection with a period written out in mixed
\* case, and asks for the box score.
C24_Witness ==
    /\ sq_query # NotCalled
    /\ sq_bet.selection = T_team \o T_FirstHalf \o S_Space \o T_over
    /\ EndsWith(sq_query, S_BoxScore)

====
